---- MODULE Spec2Model ----
(***************************************************************************)
(* A model of app/utils/sitemap.server.ts: the default path resolver       *)
(* (defaultGetSitemapHandle), the per-route collector run under            *)
(* Promise.all, the schema validation, the first-seen-wins deduplication   *)
(* loop and the XML serializer (getEntry) of getSitemapXml.                *)
(*                                                                         *)
(* Strings that the code takes apart (paths) are sequences of one-character*)
(* strings.  Priorities are counted in tenths (5 is 0.5, 15 is 1.5).  A    *)
(* Date is a record [time |-> t]: it has an internal time value and no own *)
(* enumerable property.  An object with optional properties is a function  *)
(* whose DOMAIN is the set of properties it has.                           *)
(***************************************************************************)
EXTENDS Integers, Sequences, FiniteSets, TLC

VARIABLES
    manifest,          \* remixContext.manifest.routes: id -> manifest entry
    routeModules,      \* Object.entries(remixContext.routeModules), in order
    next,              \* index of the next module the map callback is run on
    promise,           \* per module: state of the promise its callback returned
    awaited,           \* per module: what `await getSitemapEntries(..)` waits on
    results,           \* per module: the value its callback's promise fulfilled with
    settled,           \* the modules whose promise has settled, in the order they did
    pc,                \* where getSitemapXml itself is
    rawSitemapEntries, \* the flattened, filtered result of Promise.all
    sitemapEntries,    \* the accepted entries
    cursor,            \* position of the deduplication loop in rawSitemapEntries
    xml,               \* the <url> blocks of the returned document
    warnings           \* what console.warn was called with, in order

vars == <<manifest, routeModules, next, promise, awaited, results, settled, pc,
          rawSitemapEntries, sitemapEntries, cursor, xml, warnings>>

(***************************************************************************)
(* Bounds of the model.                                                    *)
(***************************************************************************)
\* the number of route modules besides the root
MaxRoutes == 2
\* lastmod takes the time values 1..MaxDate
MaxDate == 2

(***************************************************************************)
(* Values.                                                                 *)
(***************************************************************************)
None == "none"
Root == "root"
IdOf(i) == IF i = 0 THEN Root ELSE "r" \o ToString(i)

Restrict(f, S) == [k \in S |-> f[k]]

\* SitemapEntrySchema: the values each property may take
ChangefreqEnum == {"always", "hourly", "daily", "weekly", "monthly", "yearly", "never"}
PriorityLiterals == 0..10
Dates == {[time |-> t] : t \in 1..MaxDate}

\* the null of JavaScript, as an element of an array or as a returned value
Null == [isNull |-> TRUE]
IsNull(v) == "isNull" \in DOMAIN v

(***************************************************************************)
(* removeTrailingSlash                                                     *)
(***************************************************************************)
removeTrailingSlash(s) ==
    IF Len(s) > 0 /\ s[Len(s)] = "/" THEN SubSeq(s, 1, Len(s) - 1) ELSE s

(***************************************************************************)
(* isEqual.  Object.keys of a Date is empty; typeof a Date is 'object',    *)
(* typeof a missing property is 'undefined'.                               *)
(***************************************************************************)
IsDate(v) == "time" \in DOMAIN v
ObjectKeys(obj) == IF IsDate(obj) THEN {} ELSE DOMAIN obj
\* typeof obj[key] === 'object', for the values a validated entry can hold
IsObjectAt(obj, key) == key \in DOMAIN obj /\ key = "lastmod"
\* val1 !== val2, where val1 = obj1[key] is defined
StrictNotEqual(obj1, obj2, key) == key \notin DOMAIN obj2 \/ obj1[key] # obj2[key]

RECURSIVE isEqual(_, _)
isEqual(obj1, obj2) ==
    LET keys1 == ObjectKeys(obj1)
        keys2 == ObjectKeys(obj2)
    IN  IF Cardinality(keys1) # Cardinality(keys2) THEN FALSE
        ELSE \A key \in keys1 :
                IF IsObjectAt(obj1, key) /\ IsObjectAt(obj2, key)
                THEN isEqual(obj1[key], obj2[key])
                ELSE ~StrictNotEqual(obj1, obj2, key)

(***************************************************************************)
(* HandleSchema, SitemapEntrySchema, SitemapEntriesSchema                  *)
(***************************************************************************)
\* a handle is undefined, an object whose getSitemapEntries is undefined,
\* null or a function, or a value HandleSchema rejects
HandleUndefined == [shape |-> "undefined"]
HandleMalformed == [shape |-> "malformed"]
HandleEmpty == [shape |-> "object", gse |-> "undefined"]
HandleNull == [shape |-> "object", gse |-> "null"]
HandleFunction(ret, pending) ==
    [shape |-> "object", gse |-> "function", ret |-> ret, pending |-> pending]

HandleSchemaOk(handle) == handle.shape # "malformed"
\* mod.handle?.getSitemapEntries
GetSitemapEntriesOf(handle) ==
    IF handle.shape = "object" THEN handle.gse ELSE "undefined"

SitemapEntrySchemaOk(item) ==
    /\ ~IsNull(item)
    /\ "route" \in DOMAIN item
    /\ "lastmod" \in DOMAIN item => item.lastmod \in Dates
    /\ "changefreq" \in DOMAIN item => item.changefreq \in ChangefreqEnum
    /\ "priority" \in DOMAIN item => item.priority \in PriorityLiterals

SitemapEntriesSchemaOk(arr) == \A i \in 1..Len(arr) : SitemapEntrySchemaOk(arr[i])

(***************************************************************************)
(* defaultGetSitemapHandle.  A manifest entry is [path, index, parentId];  *)
(* a path of <<>> is a path that is undefined or '' (the code only tests   *)
(* its truthiness), a parentId of None is an undefined parentId.           *)
(***************************************************************************)
ModuleOf(id) == routeModules[CHOOSE k \in 1..Len(routeModules) : routeModules[k].id = id]

\* parentId ? remixContext.manifest.routes[parentId] : null, as "is truthy"
HasParent(parentId) == parentId # None /\ parentId \in DOMAIN manifest

\* path.includes(':')
IncludesColon(path) == \E i \in 1..Len(path) : path[i] = ":"

\* WalkParents with the opt-out test left out for the root
RECURSIVE WalkParentsBelowRoot(_, _)
WalkParentsBelowRoot(parentId, path) ==
    IF ~HasParent(parentId) THEN [opted |-> FALSE, path |-> path]
    ELSE IF /\ manifest[parentId].parentId # None
            /\ GetSitemapEntriesOf(ModuleOf(parentId).handle) = "null"
    THEN [opted |-> TRUE, path |-> path]
    ELSE LET parent == manifest[parentId]
             parentPath == IF parent.path # <<>>
                           THEN removeTrailingSlash(parent.path) ELSE <<>>
         IN  WalkParentsBelowRoot(parent.parentId, parentPath \o <<"/">> \o path)

\* the while loop: [opted |-> the loop returned null, path |-> the path built]
RECURSIVE WalkParents(_, _)
WalkParents(parentId, path) ==
    IF ~HasParent(parentId) THEN [opted |-> FALSE, path |-> path]
    ELSE IF GetSitemapEntriesOf(ModuleOf(parentId).handle) = "null"
    THEN [opted |-> TRUE, path |-> path]
    ELSE LET parent == manifest[parentId]
             parentPath == IF parent.path # <<>>
                           THEN removeTrailingSlash(parent.path) ELSE <<>>
         IN  WalkParents(parent.parentId, parentPath \o <<"/">> \o path)

\* [ret |-> the value returned, warn |-> what it logged]
defaultGetSitemapHandle(id) ==
    IF id \notin DOMAIN manifest
    THEN [ret |-> Null, warn |-> <<[kind |-> "manifest", id |-> id]>>]
    ELSE LET manifestEntry == manifest[id]
             own == IF manifestEntry.path # <<>>
                    THEN removeTrailingSlash(manifestEntry.path) ELSE <<>>
             walk == WalkParents(manifestEntry.parentId, own)
         IN  IF manifestEntry.path = <<>> /\ ~manifestEntry.index
             THEN [ret |-> Null, warn |-> <<>>]
             ELSE IF walk.opted THEN [ret |-> Null, warn |-> <<>>]
             ELSE IF IncludesColon(walk.path) THEN [ret |-> Null, warn |-> <<>>]
             ELSE IF id = Root THEN [ret |-> Null, warn |-> <<>>]
             ELSE [ret |-> [route |-> removeTrailingSlash(walk.path)], warn |-> <<>>]

(***************************************************************************)
(* getEntry: the elements of one <url> block, in order.  A template part   *)
(* `${v ? .. : ''}` is there when v is truthy: a Date and a non-empty       *)
(* string are, the number 0 is not.                                        *)
(***************************************************************************)
Origin == <<"https://example.com">>

\* lastmod.toISOString()
ToISOString(date) == "2024-01-0" \o ToString(date.time) \o "T00:00:00.000Z"
\* `${priority}`: the number's decimal text (1.0 prints as 1, 0.0 as 0)
NumberText(p) == IF p % 10 = 0 THEN ToString(p \div 10)
                 ELSE ToString(p \div 10) \o "." \o ToString(p % 10)

TruthyAt(entry, key) ==
    /\ key \in DOMAIN entry
    /\ key = "priority" => entry[key] # 0
    /\ key = "changefreq" => entry[key] # ""

getEntry(entry) ==
    <<[tag |-> "loc", text |-> Origin \o entry.route]>>
    \o (IF TruthyAt(entry, "lastmod")
        THEN <<[tag |-> "lastmod", text |-> <<ToISOString(entry.lastmod)>>]>> ELSE <<>>)
    \o (IF TruthyAt(entry, "changefreq")
        THEN <<[tag |-> "changefreq", text |-> <<entry.changefreq>>]>> ELSE <<>>)
    \o (IF TruthyAt(entry, "priority")
        THEN <<[tag |-> "priority", text |-> <<NumberText(entry.priority)>>]>> ELSE <<>>)

(***************************************************************************)
(* The values a custom getSitemapEntries function gives: null, an entry,   *)
(* an array [items |-> ..] of entries and nulls, or a throw / rejection.   *)
(***************************************************************************)
Throw == [isThrow |-> TRUE]
IsThrow(v) == "isThrow" \in DOMAIN v
IsArray(v) == "items" \in DOMAIN v

\* what a callback that did not call getSitemapEntries waits on: nothing
NotCalled == [called |-> FALSE, value |-> Null, pending |-> FALSE]

\* .filter(Boolean)
FilterBoolean(arr) == SelectSeq(arr, LAMBDA z : ~IsNull(z))

\* the part of the map callback before its await, for module k:
\* [state |-> of the callback's promise, value |-> what it fulfilled with,
\*  awaited |-> what it waits on, warn |-> what was logged]
CallbackStart(k) ==
    LET mod == routeModules[k]
        id == mod.id
        isResourceRoute == ~mod.hasDefault
        routeGetSitemapEntries == GetSitemapEntriesOf(mod.handle)
        skip == [state |-> "fulfilled", value |-> Null, awaited |-> NotCalled, warn |-> <<>>]
    IN  IF id = Root THEN skip
        ELSE IF ~HandleSchemaOk(mod.handle) THEN skip
        ELSE IF routeGetSitemapEntries = "null" THEN skip
        ELSE IF routeGetSitemapEntries = "undefined" /\ isResourceRoute THEN skip
        ELSE IF routeGetSitemapEntries = "function"
        THEN IF IsThrow(mod.handle.ret) /\ ~mod.handle.pending
             THEN \* the function throws before a promise exists
                  [state |-> "rejected", value |-> Null, warn |-> <<>>,
                   awaited |-> [called |-> TRUE, value |-> Throw, pending |-> FALSE]]
             ELSE [state |-> "awaiting", value |-> Null, warn |-> <<>>,
                   awaited |-> [called |-> TRUE, value |-> mod.handle.ret,
                                pending |-> mod.handle.pending]]
        ELSE LET d == defaultGetSitemapHandle(id)
             IN  [state |-> "awaiting", value |-> Null, warn |-> d.warn,
                  awaited |-> [called |-> TRUE, value |-> d.ret, pending |-> FALSE]]

\* CallbackResume with parse in place of safeParse: a failure throws
CallbackResumeParse(k) ==
    LET rawEntries == awaited[k].value
        rawEntryArray == IF IsArray(rawEntries) THEN rawEntries.items ELSE <<rawEntries>>
    IN  IF IsThrow(rawEntries) THEN [state |-> "rejected", value |-> Null, warn |-> <<>>]
        ELSE IF IsNull(rawEntries) THEN [state |-> "fulfilled", value |-> Null, warn |-> <<>>]
        ELSE IF ~SitemapEntriesSchemaOk(rawEntryArray)
        THEN [state |-> "rejected", value |-> Null, warn |-> <<>>]
        ELSE [state |-> "fulfilled", warn |-> <<>>,
              value |-> [items |-> FilterBoolean(rawEntryArray)]]

\* the part of the map callback after its await, for module k
CallbackResume(k) ==
    LET id == routeModules[k].id
        rawEntries == awaited[k].value
        rawEntryArray == IF IsArray(rawEntries) THEN rawEntries.items ELSE <<rawEntries>>
    IN  IF IsThrow(rawEntries) THEN [state |-> "rejected", value |-> Null, warn |-> <<>>]
        ELSE IF IsNull(rawEntries) THEN [state |-> "fulfilled", value |-> Null, warn |-> <<>>]
        ELSE IF ~SitemapEntriesSchemaOk(rawEntryArray)
        THEN [state |-> "fulfilled", value |-> Null,
              warn |-> <<[kind |-> "invalid", id |-> id]>>]
        ELSE [state |-> "fulfilled", warn |-> <<>>,
              value |-> [items |-> FilterBoolean(rawEntryArray)]]

(***************************************************************************)
(* Scheduling.  The map runs every callback up to its await before any     *)
(* continuation runs.  A continuation whose awaited value is there already *)
(* (not pending) was queued by the await itself: these run in the order of *)
(* their awaits, before anything that waits on I/O and before the          *)
(* reactions of Promise.all.  Pending ones complete in any order.          *)
(***************************************************************************)
Modules == 1..Len(routeModules)
ReadyAwaiting(j) == promise[j] = "awaiting" /\ ~awaited[j].pending
\* CanResume for a continuation that does not wait for the map to end
CanResumeEarly(k) == promise[k] = "awaiting"

CanResume(k) ==
    /\ pc # "map"
    /\ promise[k] = "awaiting"
    /\ IF awaited[k].pending THEN \A j \in Modules : ~ReadyAwaiting(j)
       ELSE \A j \in 1..(k - 1) : ~ReadyAwaiting(j)

\* PromiseAllValues with each value put where its promise settled
PromiseAllValuesByCompletion == [i \in 1..Len(settled) |-> results[settled[i]]]

\* the array Promise.all fulfils with: one value per callback, by index
PromiseAllValues == [k \in Modules |-> results[k]]
\* .flatMap(z => z).filter(Boolean)
RECURSIVE FlatMap(_)
FlatMap(vals) ==
    IF vals = <<>> THEN <<>>
    ELSE (IF IsArray(Head(vals)) THEN Head(vals).items ELSE <<Head(vals)>>)
         \o FlatMap(Tail(vals))

\* FindRoute looking at the first accepted entry only
FindRouteFirstOnly(entries, route) ==
    IF Len(entries) > 0 /\ entries[1].route = route THEN 1 ELSE 0

\* sitemapEntries.find(e => e.route === entry.route): its index, 0 if none
FindRoute(entries, route) ==
    IF \E i \in 1..Len(entries) : entries[i].route = route
    THEN CHOOSE i \in 1..Len(entries) :
            /\ entries[i].route = route
            /\ \A j \in 1..(i - 1) : entries[j].route # route
    ELSE 0

(***************************************************************************)
(* Actions.                                                                *)
(***************************************************************************)
\* Object.entries(..).map(async ..): the callback of the next module, up to
\* its await; after the last one Promise.all is called and awaited
Start ==
    /\ pc = "map"
    /\ LET c == CallbackStart(next)
       IN  /\ promise' = [promise EXCEPT ![next] = c.state]
           /\ results' = [results EXCEPT ![next] = c.value]
           /\ awaited' = [awaited EXCEPT ![next] = c.awaited]
           /\ warnings' = warnings \o c.warn
           /\ settled' = IF c.state = "awaiting" THEN settled ELSE Append(settled, next)
    /\ next' = next + 1
    /\ pc' = IF next = Len(routeModules) THEN "join" ELSE "map"
    /\ UNCHANGED <<manifest, routeModules, rawSitemapEntries, sitemapEntries, cursor, xml>>

\* the awaited value of module k arrives and its callback runs to its end
Resume(k) ==
    /\ CanResume(k)
    /\ LET c == CallbackResume(k)
       IN  /\ promise' = [promise EXCEPT ![k] = c.state]
           /\ results' = [results EXCEPT ![k] = c.value]
           /\ warnings' = warnings \o c.warn
    /\ settled' = Append(settled, k)
    /\ UNCHANGED <<manifest, routeModules, next, awaited, pc, rawSitemapEntries,
                   sitemapEntries, cursor, xml>>

\* Promise.all fulfils: every callback's promise is fulfilled
JoinResolve ==
    /\ pc = "join"
    /\ \A k \in Modules : promise[k] = "fulfilled"
    /\ rawSitemapEntries' = FilterBoolean(FlatMap(PromiseAllValues))
    /\ cursor' = 1
    /\ pc' = "dedup"
    /\ UNCHANGED <<manifest, routeModules, next, promise, awaited, results, settled,
                   sitemapEntries, xml, warnings>>

\* Promise.all rejects as soon as one callback's promise is rejected, and
\* getSitemapXml throws out of its await
JoinReject ==
    /\ pc = "join"
    /\ \E k \in Modules : promise[k] = "rejected"
    /\ \A j \in Modules : ~ReadyAwaiting(j)
    /\ pc' = "threw"
    /\ UNCHANGED <<manifest, routeModules, next, promise, awaited, results, settled,
                   rawSitemapEntries, sitemapEntries, cursor, xml, warnings>>

\* one iteration of `for (const entry of rawSitemapEntries)`
DedupStep ==
    /\ pc = "dedup"
    /\ cursor <= Len(rawSitemapEntries)
    /\ LET entry == rawSitemapEntries[cursor]
           found == FindRoute(sitemapEntries, entry.route)
       IN  IF found # 0
           THEN /\ sitemapEntries' = sitemapEntries
                /\ warnings' =
                     IF ~isEqual(sitemapEntries[found], entry)
                     THEN Append(warnings, [kind |-> "duplicate", route |-> entry.route,
                                            entry |-> entry,
                                            existingEntryForRoute |-> sitemapEntries[found]])
                     ELSE warnings
           ELSE /\ sitemapEntries' = Append(sitemapEntries, entry)
                /\ warnings' = warnings
    /\ cursor' = cursor + 1
    /\ UNCHANGED <<manifest, routeModules, next, promise, awaited, results, settled, pc,
                   rawSitemapEntries, xml>>

\* the template literal: one <url> block per accepted entry, and the return
Serialize ==
    /\ pc = "dedup"
    /\ cursor > Len(rawSitemapEntries)
    /\ xml' = [i \in 1..Len(sitemapEntries) |-> getEntry(sitemapEntries[i])]
    /\ pc' = "returned"
    /\ UNCHANGED <<manifest, routeModules, next, promise, awaited, results, settled,
                   rawSitemapEntries, sitemapEntries, cursor, warnings>>

Next ==
    \/ Start
    \/ \E k \in Modules : Resume(k)
    \/ JoinResolve
    \/ JoinReject
    \/ DedupStep
    \/ Serialize

(***************************************************************************)
(* The inputs: a manifest and the route modules, the root first and every  *)
(* route after its parent, so that the parent links form a tree.           *)
(***************************************************************************)
Routes == 1..MaxRoutes

\* an entry with the optional properties that are given (0, "", -1: not given)
MkEntry(route, time, changefreq, priority) ==
    Restrict([route |-> route, lastmod |-> [time |-> time],
              changefreq |-> changefreq, priority |-> priority],
             {"route"} \cup (IF time # 0 THEN {"lastmod"} ELSE {})
                       \cup (IF changefreq # "" THEN {"changefreq"} ELSE {})
                       \cup (IF priority # -1 THEN {"priority"} ELSE {}))

RouteA == <<"/", "a">>
RouteB == <<"/", "b">>

\* the manifest entry of a route of each kind
KindEntry(kind, parentId) ==
    CASE kind = "static"  -> [path |-> <<"a">>, index |-> FALSE, parentId |-> parentId]
      [] kind = "slash"   -> [path |-> <<"b", "/">>, index |-> FALSE, parentId |-> parentId]
      [] kind = "dynamic" -> [path |-> <<":", "s">>, index |-> FALSE, parentId |-> parentId]
      [] kind = "layout"  -> [path |-> <<>>, index |-> FALSE, parentId |-> parentId]
      [] kind = "index"   -> [path |-> <<>>, index |-> TRUE, parentId |-> parentId]
Kinds == {"static", "slash", "dynamic", "layout", "index"}
RootEntry == [path |-> <<>>, index |-> FALSE, parentId |-> None]

\* kinds[i] = "missing": route i has a module and no manifest entry
MkManifest(kinds, parents) ==
    [id \in {Root} \cup {IdOf(i) : i \in {j \in Routes : kinds[j] # "missing"}} |->
        IF id = Root THEN RootEntry
        ELSE LET i == CHOOSE j \in Routes : IdOf(j) = id
             IN  KindEntry(kinds[i], IdOf(parents[i]))]

MkModules(mods) == [k \in 1..(MaxRoutes + 1) |->
                      [id |-> IdOf(k - 1), hasDefault |-> mods[k - 1].hasDefault,
                       handle |-> mods[k - 1].handle]]

UiModule(handle) == [hasDefault |-> TRUE, handle |-> handle]
ResourceModule(handle) == [hasDefault |-> FALSE, handle |-> handle]

\* every route directly under the root, with a static path
FlatManifest ==
    MkManifest([i \in Routes |-> IF i % 2 = 1 THEN "static" ELSE "slash"],
               [i \in Routes |-> 0])

\* the state when getSitemapXml is entered
Entered(man, mods) ==
    /\ manifest = man
    /\ routeModules = mods
    /\ next = 1
    /\ promise = [k \in 1..Len(mods) |-> "unstarted"]
    /\ awaited = [k \in 1..Len(mods) |-> NotCalled]
    /\ results = [k \in 1..Len(mods) |-> Null]
    /\ settled = <<>>
    /\ pc = "map"
    /\ rawSitemapEntries = <<>>
    /\ sitemapEntries = <<>>
    /\ cursor = 1
    /\ xml = <<>>
    /\ warnings = <<>>

\* route trees of every shape (an index route has no children), every module
\* a UI route that declares no function of its own or opts out
InitResolver ==
    \E kinds \in [Routes -> Kinds \cup {"missing"}] :
    \E parents \in {f \in [Routes -> 0..(MaxRoutes - 1)] :
                        \A i \in Routes : f[i] < i /\ (f[i] # 0 => kinds[f[i]] # "index")} :
    \E handles \in [0..MaxRoutes -> {HandleUndefined, HandleEmpty, HandleNull}] :
        Entered(MkManifest(kinds, parents),
                MkModules([i \in 0..MaxRoutes |-> UiModule(handles[i])]))

\* what the custom functions of the collector's inputs return
PoolEntries ==
    {MkEntry(RouteA, 0, "", -1), MkEntry(RouteA, 0, "", 5), MkEntry(RouteA, 0, "", 15),
     MkEntry(RouteB, 0, "daily", -1)}
    \cup {MkEntry(RouteA, t, "", -1) : t \in 1..MaxDate}
PoolItems == {Null, MkEntry(RouteA, 0, "", -1), MkEntry(RouteA, 0, "", 5)}
PoolArrays == {<<>>} \cup {<<x>> : x \in PoolItems}
              \cup {<<x, y>> : x \in PoolItems, y \in PoolItems}
PoolReturns == {Null, Throw} \cup PoolEntries \cup {[items |-> a] : a \in PoolArrays}
PoolModules ==
    {UiModule(HandleUndefined), ResourceModule(HandleUndefined),
     UiModule(HandleMalformed), UiModule(HandleNull)}
    \cup {UiModule(HandleFunction(r, TRUE)) : r \in PoolReturns}
    \cup {UiModule(HandleFunction(r, FALSE)) : r \in {Null, Throw} \cup PoolEntries}

\* a flat route tree, modules of every sort: every return from a function
\* whose promise is pending, the single values from a synchronous one too
InitCollector ==
    \E mods \in [Routes -> PoolModules] :
        Entered(FlatManifest,
                MkModules([i \in 0..MaxRoutes |->
                             IF i = 0 THEN UiModule(HandleUndefined) ELSE mods[i]]))

\* every entry the schema accepts, returned by the first route
SchemaEntries ==
    {MkEntry(RouteA, t, c, p) : t \in 0..MaxDate, c \in ChangefreqEnum \cup {""},
                                p \in PriorityLiterals \cup {-1}}
InitSerializer ==
    \E e \in SchemaEntries :
        Entered(FlatManifest,
                MkModules([i \in 0..MaxRoutes |->
                             IF i = 1 THEN UiModule(HandleFunction(e, FALSE))
                             ELSE UiModule(HandleUndefined)]))

Init == InitResolver \/ InitCollector \/ InitSerializer

Spec == Init /\ [][Next]_vars

(***************************************************************************)
(* Vocabulary of the properties.                                           *)
(***************************************************************************)
Started(k) == k < next
Settled(k) == promise[k] \in {"fulfilled", "rejected"}
IdAt(k) == routeModules[k].id
\* the callback of module k calls defaultGetSitemapHandle
UsesDefault(k) ==
    /\ IdAt(k) # Root
    /\ HandleSchemaOk(routeModules[k].handle)
    /\ GetSitemapEntriesOf(routeModules[k].handle) = "undefined"
    /\ routeModules[k].hasDefault
OptedOut(id) == GetSitemapEntriesOf(ModuleOf(id).handle) = "null"

\* the route tree of the manifest
RECURSIVE Rooted(_)
Rooted(id) ==
    /\ id \in DOMAIN manifest
    /\ manifest[id].parentId # None => Rooted(manifest[id].parentId)
RECURSIVE AncestorsOf(_)
AncestorsOf(id) ==
    IF id \notin DOMAIN manifest THEN {}
    ELSE LET p == manifest[id].parentId
         IN  IF p = None \/ p \notin DOMAIN manifest THEN {} ELSE {p} \cup AncestorsOf(p)
IsDynamic(id) == \E i \in 1..Len(manifest[id].path) : manifest[id].path[i] = ":"
SegmentOf(id) ==
    LET path == manifest[id].path
    IN  IF path # <<>> /\ path[Len(path)] = "/" THEN SubSeq(path, 1, Len(path) - 1) ELSE path
\* the segments from the root down to id, each non-empty one after one '/'
RECURSIVE ExpectedRoute(_)
ExpectedRoute(id) ==
    (IF manifest[id].parentId = None THEN <<>> ELSE ExpectedRoute(manifest[id].parentId))
    \o (IF SegmentOf(id) = <<>> THEN <<>> ELSE <<"/">> \o SegmentOf(id))

\* what the function of module k returned, as a list of raw items
ReturnedItems(k) ==
    LET v == awaited[k].value IN IF IsArray(v) THEN v.items ELSE <<v>>
ReturnedSomething(k) ==
    awaited[k].called /\ ~IsNull(awaited[k].value) /\ ~IsThrow(awaited[k].value)
ReturnedInvalid(k) == ReturnedSomething(k) /\ ~SitemapEntriesSchemaOk(ReturnedItems(k))
ReturnedValid(k) == ReturnedSomething(k) /\ SitemapEntriesSchemaOk(ReturnedItems(k))

WarnedAbout(kind, id) ==
    \E i \in 1..Len(warnings) : warnings[i].kind = kind /\ warnings[i].id = id
ElementsOf(block, tag) == {i \in 1..Len(block) : block[i].tag = tag}
HasLoc(block, route) ==
    \E i \in ElementsOf(block, "loc") : block[i].text = Origin \o route

\* index of the first entry of rawSitemapEntries with the route of entry j
FirstWithRoute(j) ==
    CHOOSE i \in 1..j :
        /\ rawSitemapEntries[i].route = rawSitemapEntries[j].route
        /\ \A h \in 1..(i - 1) : rawSitemapEntries[h].route # rawSitemapEntries[j].route
Processed == 1..(cursor - 1)

(***************************************************************************)
(* C1.  A route with a static path segment, or an index route, whose       *)
(* ancestors in the route tree are neither dynamic nor opted out, resolves *)
(* to exactly one entry whose route is the segments of its ancestors from  *)
(* the root down to itself, each after a single '/', with no trailing      *)
(* slash; ancestors without a segment add nothing.                         *)
(***************************************************************************)
C1_Resolvable(k) ==
    LET id == IdAt(k)
    IN  /\ Started(k) /\ UsesDefault(k)
        /\ Rooted(id)
        /\ (manifest[id].path # <<>> /\ ~IsDynamic(id)) \/ manifest[id].index
        /\ \A a \in AncestorsOf(id) : ~IsDynamic(a) /\ ~OptedOut(a)
\* C1: every resolvable route resolves to the path of its ancestors' segments
C1_DefaultRouteIsAncestorPath ==
    \A k \in Modules :
        C1_Resolvable(k) => awaited[k].value = [route |-> ExpectedRoute(IdAt(k))]

(***************************************************************************)
(* C2.  A route that uses the default resolver and has an ancestor, at any *)
(* depth up to the root, whose module sets getSitemapEntries to null gets  *)
(* null from the resolver and contributes no entry.                        *)
(***************************************************************************)
C2_HasOptedOutAncestor(k) ==
    /\ Started(k) /\ UsesDefault(k)
    /\ \E a \in AncestorsOf(IdAt(k)) : OptedOut(a)
\* C2: the resolver gives null under an opted-out ancestor
C2_OptOutInherited ==
    \A k \in Modules :
        C2_HasOptedOutAncestor(k) =>
            /\ awaited[k].called /\ IsNull(awaited[k].value)
            /\ promise[k] # "rejected"
            /\ results[k] = Null
\* a route with a static path whose parent has not opted out and whose
\* grandparent has: the default resolver ran and the route gave nothing
C2_Witness ==
    \E k \in Modules :
        /\ C2_HasOptedOutAncestor(k)
        /\ promise[k] = "fulfilled"
        /\ IdAt(k) \in DOMAIN manifest
        /\ manifest[IdAt(k)].path # <<>> /\ ~IsDynamic(IdAt(k))
        /\ ~OptedOut(manifest[IdAt(k)].parentId)
        /\ pc = "returned"

(***************************************************************************)
(* C3.  While and after the deduplication loop runs, the accepted list has *)
(* no two entries with one route, it holds exactly the routes of the       *)
(* entries processed, and the entry accepted for a route is the first      *)
(* processed entry with that route.                                        *)
(***************************************************************************)
C3_FirstSeenWins ==
    pc \in {"dedup", "returned"} =>
        /\ cursor <= Len(rawSitemapEntries) + 1
        /\ \A i, j \in 1..Len(sitemapEntries) :
              sitemapEntries[i].route = sitemapEntries[j].route => i = j
        /\ \A j \in Processed :
              \E i \in 1..Len(sitemapEntries) :
                  sitemapEntries[i] = rawSitemapEntries[FirstWithRoute(j)]
        /\ \A i \in 1..Len(sitemapEntries) :
              \E j \in Processed :
                  sitemapEntries[i] = rawSitemapEntries[FirstWithRoute(j)]
\* a later entry with an accepted route and other data was processed
C3_Witness ==
    /\ pc = "returned"
    /\ \E j \in Processed :
          /\ FirstWithRoute(j) # j
          /\ rawSitemapEntries[j] # rawSitemapEntries[FirstWithRoute(j)]

(***************************************************************************)
(* C4.  An entry whose route was accepted before is warned about exactly   *)
(* when it differs from the accepted entry in some property.               *)
(***************************************************************************)
C4_Warned(j) ==
    \E i \in 1..Len(warnings) :
        /\ warnings[i].kind = "duplicate"
        /\ warnings[i].entry = rawSitemapEntries[j]
        /\ warnings[i].existingEntryForRoute = rawSitemapEntries[FirstWithRoute(j)]
\* C4: a repeated route is warned about iff its entry differs from the accepted one
C4_WarningIffDifferent ==
    pc \in {"dedup", "returned"} =>
        \A j \in Processed :
            FirstWithRoute(j) # j =>
                (C4_Warned(j) <=> rawSitemapEntries[j] # rawSitemapEntries[FirstWithRoute(j)])

(***************************************************************************)
(* C5.  When what one route's function returned fails the schema, that     *)
(* route's promise still fulfils, with no entry and after a warning naming *)
(* the route; generation fails only when some function throws; and in the  *)
(* returned document every entry of every other route whose return passes  *)
(* the schema has a <url> block for its route.                             *)
(***************************************************************************)
C5_InvalidRouteIsContained ==
    \A k \in Modules :
        ReturnedInvalid(k) =>
            /\ promise[k] # "rejected"
            /\ promise[k] = "fulfilled" =>
                  results[k] = Null /\ WarnedAbout("invalid", IdAt(k))
            /\ pc = "threw" => \E j \in Modules : IsThrow(awaited[j].value)
            /\ pc = "returned" =>
                  \A j \in Modules \ {k} :
                      ReturnedValid(j) =>
                          \A n \in 1..Len(ReturnedItems(j)) :
                              \E i \in 1..Len(sitemapEntries) :
                                  /\ sitemapEntries[i].route = ReturnedItems(j)[n].route
                                  /\ HasLoc(xml[i], ReturnedItems(j)[n].route)
\* one route returned an entry with priority 1.5, another a valid entry with
\* another route, and the document was returned
C5_Witness ==
    /\ pc = "returned"
    /\ \E k, j \in Modules :
          /\ ReturnedInvalid(k)
          /\ \E n \in 1..Len(ReturnedItems(k)) :
                /\ "priority" \in DOMAIN ReturnedItems(k)[n]
                /\ ReturnedItems(k)[n].priority = 15
          /\ ReturnedValid(j)
          /\ \E n \in 1..Len(ReturnedItems(j)) :
                \A m \in 1..Len(ReturnedItems(k)) :
                    ReturnedItems(j)[n].route # ReturnedItems(k)[m].route

(***************************************************************************)
(* C6.  When a function returns an array that holds nulls beside valid     *)
(* entries, the route's promise fulfils with the valid entries of the      *)
(* array, the nulls left out.                                              *)
(***************************************************************************)
C6_NullsBesideEntries(k) ==
    /\ awaited[k].called /\ IsArray(awaited[k].value)
    /\ \E n \in 1..Len(ReturnedItems(k)) : IsNull(ReturnedItems(k)[n])
    /\ \E n \in 1..Len(ReturnedItems(k)) : ~IsNull(ReturnedItems(k)[n])
    /\ \A n \in 1..Len(ReturnedItems(k)) :
          IsNull(ReturnedItems(k)[n]) \/ SitemapEntrySchemaOk(ReturnedItems(k)[n])
\* C6: the route keeps the valid entries of an array that also holds nulls
C6_NullsAreFilteredOut ==
    \A k \in Modules :
        (C6_NullsBesideEntries(k) /\ promise[k] = "fulfilled") =>
            results[k] = [items |-> SelectSeq(ReturnedItems(k), LAMBDA z : ~IsNull(z))]

(***************************************************************************)
(* C7.  In the returned document the block of an accepted entry has a      *)
(* <lastmod>, <changefreq> or <priority> element exactly when the entry    *)
(* has that property, and the element's text is the entry's value.         *)
(***************************************************************************)
C7_PriorityTexts ==
    <<"0", "0.1", "0.2", "0.3", "0.4", "0.5", "0.6", "0.7", "0.8", "0.9", "1">>
C7_TextOf(entry, tag) ==
    CASE tag = "lastmod" ->
            <<"2024-01-0" \o ToString(entry.lastmod.time) \o "T00:00:00.000Z">>
      [] tag = "changefreq" -> <<entry.changefreq>>
      [] tag = "priority" -> <<C7_PriorityTexts[entry.priority + 1]>>
\* C7: an optional element is in the block iff the entry has the property
C7_ElementsMatchProperties ==
    pc = "returned" =>
        \A i \in 1..Len(sitemapEntries) :
            \A tag \in {"lastmod", "changefreq", "priority"} :
                IF tag \in DOMAIN sitemapEntries[i]
                THEN /\ Cardinality(ElementsOf(xml[i], tag)) = 1
                     /\ \A e \in ElementsOf(xml[i], tag) :
                           xml[i][e].text = C7_TextOf(sitemapEntries[i], tag)
                ELSE ElementsOf(xml[i], tag) = {}

(***************************************************************************)
(* C8.  Every recoverable failure of a route is warned about: a module     *)
(* whose handle fails HandleSchema, a route the resolver finds no manifest *)
(* entry for, a return that fails the schema, an entry that conflicts with *)
(* the accepted entry of its route; and none of them fails generation.     *)
(***************************************************************************)
C8_Named(id) == \E i \in 1..Len(warnings) : "id" \in DOMAIN warnings[i] /\ warnings[i].id = id
\* C8: no recoverable failure goes without a warning or fails generation
C8_EveryFailureIsWarned ==
    /\ \A k \in Modules :
          /\ (Started(k) /\ IdAt(k) # Root /\ ~HandleSchemaOk(routeModules[k].handle))
                => C8_Named(IdAt(k))
          /\ (Started(k) /\ UsesDefault(k) /\ IdAt(k) \notin DOMAIN manifest)
                => WarnedAbout("manifest", IdAt(k))
          /\ (ReturnedInvalid(k) /\ promise[k] = "fulfilled")
                => WarnedAbout("invalid", IdAt(k))
    /\ pc \in {"dedup", "returned"} =>
          \A j \in Processed :
              rawSitemapEntries[j] # rawSitemapEntries[FirstWithRoute(j)] => C4_Warned(j)
    /\ pc = "threw" => \E j \in Modules : IsThrow(awaited[j].value)

(***************************************************************************)
(* C9.  No callback continues past its await before every callback has     *)
(* been started.  As stated: getSitemapXml returns or throws only after    *)
(* every callback's promise has settled.  As amended: it returns only      *)
(* after every promise has fulfilled, and it throws only after one has     *)
(* rejected, others possibly still waiting.                                *)
(***************************************************************************)
\* module k's function gave a promise that was pending, and it has settled
C9_Resumed(k) == awaited[k].called /\ Settled(k) /\ awaited[k].pending
C9_AllStartedBeforeAnyResumes ==
    /\ \A k \in Modules : (awaited[k].called /\ Settled(k) /\ pc = "map") =>
          (IsThrow(awaited[k].value) /\ ~awaited[k].pending)
    /\ \A k \in Modules : Settled(k) => Started(k)
\* C9 as stated: completion, by return or by throw, only after all have settled
C9_CompletesAfterAllSettled ==
    /\ C9_AllStartedBeforeAnyResumes
    /\ pc \in {"dedup", "returned", "threw"} => \A k \in Modules : Settled(k)
\* C9 as amended: return only after all have fulfilled, throw only after a rejection
C9_ReturnsAfterAllFulfilled ==
    /\ C9_AllStartedBeforeAnyResumes
    /\ pc \in {"dedup", "returned"} => \A k \in Modules : promise[k] = "fulfilled"
    /\ pc = "threw" => \E k \in Modules : promise[k] = "rejected"
\* getSitemapXml has thrown on one route's rejection while another route's
\* function, started before, is still waiting
C9_Witness ==
    /\ pc = "threw"
    /\ \E k, j \in Modules :
          /\ C9_Resumed(k) /\ promise[k] = "rejected"
          /\ promise[j] = "awaiting" /\ awaited[j].pending

(***************************************************************************)
(* C10.  The accepted entries, the <url> blocks and the conflict warnings  *)
(* of a returned document are a function of what the routes' functions     *)
(* returned, taken in the order of the route modules, whatever the order   *)
(* in which the functions completed.                                       *)
(***************************************************************************)
C10_Contribution(k) == IF ReturnedValid(k) THEN ReturnedItems(k) ELSE <<>>
RECURSIVE C10_Incoming(_)
C10_Incoming(k) == IF k = 0 THEN <<>> ELSE C10_Incoming(k - 1) \o C10_Contribution(k)
RECURSIVE C10_Accepted(_)
C10_Accepted(in) ==
    IF in = <<>> THEN <<>>
    ELSE LET before == C10_Accepted(SubSeq(in, 1, Len(in) - 1))
             last == in[Len(in)]
         IN  IF \E i \in 1..Len(before) : before[i].route = last.route
             THEN before ELSE Append(before, last)
C10_ConflictWarnings == SelectSeq(warnings, LAMBDA w : w.kind = "duplicate")
C10_WarnedEntries == [i \in 1..Len(C10_ConflictWarnings) |-> C10_ConflictWarnings[i].entry]
\* the entries that are not accepted and not isEqual to the accepted one
C10_Conflicting(in) ==
    SelectSeq(in, LAMBDA e :
        \E i \in 1..Len(C10_Accepted(in)) :
            /\ C10_Accepted(in)[i].route = e.route
            /\ ~isEqual(C10_Accepted(in)[i], e))
\* C10: the returned result is a function of the returns in module order
C10_ResultIsOrderIndependent ==
    pc = "returned" =>
        LET in == C10_Incoming(Len(routeModules))
        IN  /\ sitemapEntries = C10_Accepted(in)
            /\ Len(xml) = Len(sitemapEntries)
            /\ \A i \in 1..Len(xml) : HasLoc(xml[i], C10_Accepted(in)[i].route)
            /\ C10_WarnedEntries = C10_Conflicting(in)
\* two routes whose functions completed in the other order than the modules'
\* returned conflicting entries for one route
C10_Witness ==
    /\ pc = "returned"
    /\ \E a, b \in 1..Len(settled) :
          /\ a < b /\ settled[a] > settled[b]
          /\ ReturnedValid(settled[a]) /\ ReturnedValid(settled[b])
          /\ \E n \in 1..Len(ReturnedItems(settled[a])), m \in 1..Len(ReturnedItems(settled[b])) :
                /\ ReturnedItems(settled[a])[n].route = ReturnedItems(settled[b])[m].route
                /\ "priority" \in DOMAIN ReturnedItems(settled[a])[n]
                /\ "priority" \notin DOMAIN ReturnedItems(settled[b])[m]
    /\ C10_ConflictWarnings # <<>>

====
